---- MODULE Spec2Model ----
(***************************************************************************)
(* Model of the onchain-agent Python sources:                              *)
(*   src/src/lib/gepaPaymentOptimizer.py   metric and scenario generator   *)
(*   src/public/sdk/python/onchain_agent_sdk.py   AIAgentClient            *)
(*   src/public/examples/quick-start.py    CostOptimizedAIAgent            *)
(* Floats are modelled as exact rationals (reduced fractions), the money   *)
(* amounts of the generator as fixed-point integers, and numpy's global    *)
(* random generator as a small congruential generator whose starting       *)
(* state is arbitrary.  Each program of the repository has its own         *)
(* specification: SpecMetric, SpecDataset, SpecHttp, SpecEvolve.           *)
(***************************************************************************)
EXTENDS Integers, Sequences, FiniteSets, TLC

VARIABLES
    \* ---- CostAwareEfficiencyMetric.__call__ ----
    target_savings_threshold, \* self.target_savings_threshold, in tenths
    example,                  \* the example's target_savings entry
    prediction,               \* the prediction object
    m_pc,                     \* "ready" | "returned" | "raised"
    m_exc,                    \* exception met inside the try block, or "none"
    savings,                  \* local: parsed total_savings
    cost_efficiency,          \* local: score before the final min
    score                     \* the returned value

metricVars == <<target_savings_threshold, example, prediction, m_pc, m_exc,
                savings, cost_efficiency, score>>

VARIABLES
    \* ---- create_mock_payment_dataset ----
    heap,        \* the dict objects, by identity
    scenarios,   \* list of references to the seed dicts
    dataset,     \* list of references to the appended dicts
    g_i,         \* position of the outer loop (1-based)
    g_j,         \* variations made of the current scenario
    g_pc,        \* "loop" | "done"
    rng          \* state of numpy's global generator

genVars == <<heap, scenarios, dataset, g_i, g_j, g_pc, rng>>

VARIABLES
    \* ---- the HTTP wrappers ----
    who,          \* the program running: "client" (SDK) or "agent" (quick start)
    call,         \* the last public call: its arguments, what the network
                  \* answered, the requests it sent and how it ended
    total_cost,   \* CostOptimizedAIAgent.total_cost
    total_saved,  \* CostOptimizedAIAgent.total_saved
    total_calls,  \* CostOptimizedAIAgent.total_calls
    chats,        \* history: chat calls made on the agent
    ok_responses, \* history: responses with status 200 and success true
    ok_cost,      \* history: sum of their optimizedCost values
    ok_saved      \* history: sum of their savings values

httpVars == <<who, call, total_cost, total_saved, total_calls, chats,
              ok_responses, ok_cost, ok_saved>>

VARIABLES
    \* ---- evolve_payment_optimizer ----
    e_pc,           \* "idle" | "dataset" | "search" | "optimized" | "saved"
                    \* | "done" | "raised"
    budget,         \* the budget argument
    metric,         \* <<>> or <<threshold>> of the metric object of line 198
    gepa_args,      \* keyword arguments given to GEPA(...): name -> local
    optimize_args,  \* positional arguments given to gepa.optimize(...)
    evals,          \* evaluations the optimizer's search has made
    evolved_router, \* what gepa.optimize returned
    files           \* documents written, oldest first

evolveVars == <<e_pc, budget, metric, gepa_args, optimize_args, evals,
                evolved_router, files>>

VARIABLES
    \* ---- CostOptimizedAIAgent.batch_process ----
    b_pc,       \* "idle" | "loop" | "returned" | "raised"
    messages,   \* the messages argument
    b_i,        \* position of the loop in messages (1-based)
    results,    \* local: the results list
    wire,       \* history: the prompts of the requests sent by the batch
    b_calls0,   \* history: total_calls when the batch was entered
    b_calls1    \* history: total_calls when the batch returned

batchVars == <<b_pc, messages, b_i, results, wire, b_calls0, b_calls1>>

vars == <<metricVars, genVars, httpVars, evolveVars, batchVars>>

(***************************************************************************)
(* Bounds of the model                                                     *)
(***************************************************************************)
MaxLen == 3        \* longest total_savings string
RngMod == 16       \* number of states of the random generator
MaxChats == 3      \* chat calls made on one CostOptimizedAIAgent
MaxBudget == 2     \* largest budget argument
MaxBatch == 2      \* longest messages list given to batch_process

(***************************************************************************)
(* Exact rationals                                                         *)
(***************************************************************************)
Abs(x) == IF x < 0 THEN -x ELSE x

RECURSIVE GCD(_, _)
GCD(a, b) == IF b = 0 THEN a ELSE GCD(b, a % b)

\* the fraction n/d (d > 0) in lowest terms
Rat(n, d) == LET g == GCD(Abs(n), d) IN [num |-> n \div g, den |-> d \div g]
RInt(i) == [num |-> i, den |-> 1]
RAdd(a, b) == Rat(a.num * b.den + b.num * a.den, a.den * b.den)
RMul(a, b) == Rat(a.num * b.num, a.den * b.den)
RLeq(a, b) == a.num * b.den <= b.num * a.den
RMin(a, b) == IF RLeq(a, b) THEN a ELSE b
\* a / b for b > 0
RDiv(a, b) == Rat(a.num * b.den, a.den * b.num)
Tenths(k) == Rat(k, 10)

(***************************************************************************)
(* CostAwareEfficiencyMetric  (gepaPaymentOptimizer.py 76-112)             *)
(***************************************************************************)
DefaultThreshold == 3     \* target_savings_threshold: float = 0.3
SavingsWeight == 7        \* savings_accuracy * 0.7
TokenWeight == 3          \* token_efficiency * 0.3
ThresholdBonus == 2       \* cost_efficiency += 0.2
TokenNorm == 1000         \* token_count / 1000

Chars == {"$", ",", "-", "5", "0", "x"}
Digits == {"5", "0"}
DigitVal(c) == IF c = "5" THEN 5 ELSE 0

\* str.replace(old, ''): every occurrence of the character is removed
RECURSIVE Replace(_, _)
Replace(str, old) ==
    IF str = <<>> THEN <<>>
    ELSE IF Head(str) = old THEN Replace(Tail(str), old)
    ELSE <<Head(str)>> \o Replace(Tail(str), old)

RECURSIVE DigitsValue(_, _)
DigitsValue(str, acc) ==
    IF str = <<>> THEN acc
    ELSE DigitsValue(Tail(str), 10 * acc + DigitVal(Head(str)))

AllDigits(str) == str # <<>> /\ \A i \in 1..Len(str) : str[i] \in Digits

\* float(str): an optional sign and a non-empty run of digits; anything else
\* is a ValueError
ParseFloat(str) ==
    IF str # <<>> /\ Head(str) = "-" /\ AllDigits(Tail(str))
    THEN [ok |-> TRUE, value |-> -DigitsValue(Tail(str), 0)]
    ELSE IF AllDigits(str)
    THEN [ok |-> TRUE, value |-> DigitsValue(str, 0)]
    ELSE [ok |-> FALSE, value |-> 0]

\* line 92: float(prediction.total_savings.replace('$', '').replace(',', ''))
ExtractSavings(pred) ==
    IF pred.kind # "str" THEN [exc |-> "AttributeError", value |-> 0]
    ELSE LET p == ParseFloat(Replace(Replace(pred.total_savings, "$"), ","))
         IN  IF p.ok THEN [exc |-> "none", value |-> p.value]
             ELSE [exc |-> "ValueError", value |-> 0]

\* line 93: float(example.get('target_savings', 0))
TargetSavings(ex) ==
    CASE ex.kind = "num"     -> [exc |-> "none", value |-> ex.value]
      [] ex.kind = "missing" -> [exc |-> "none", value |-> 0]
      [] ex.kind = "badstr"  -> [exc |-> "ValueError", value |-> 0]
      [] ex.kind = "none"    -> [exc |-> "TypeError", value |-> 0]

Max(a, b) == IF a >= b THEN a ELSE b

\* line 96: min(savings / max(target_savings, 1), 1.0)
SavingsAccuracy(s, t) == RMin(RDiv(RInt(s), RInt(Max(t, 1))), RInt(1))

\* line 100: 1.0 / (1.0 + token_count / 1000)
TokenEfficiency(n) == RDiv(RInt(1), RAdd(RInt(1), Rat(n, TokenNorm)))

\* line 103
CostEfficiency(s, t, n) ==
    RAdd(RMul(SavingsAccuracy(s, t), Tenths(SavingsWeight)),
         RMul(TokenEfficiency(n), Tenths(TokenWeight)))

\* the comparison of line 106 turned around
MeetsThresholdFlipped(s, t, thr) == 10 * s <= t * thr

\* line 106: savings >= target_savings * self.target_savings_threshold
MeetsThreshold(s, t, thr) == 10 * s >= t * thr

\* lines 103-107: the score before the final min
RawScore(s, t, n, thr) ==
    IF MeetsThreshold(s, t, thr)
    THEN RAdd(CostEfficiency(s, t, n), Tenths(ThresholdBonus))
    ELSE CostEfficiency(s, t, n)

\* line 109 without the min
FinalScoreNoClamp(raw) == raw

\* line 109
FinalScore(raw) == RMin(raw, RInt(1))

\* which exceptions the except clause of line 111 catches
Caught(exc) == exc \in {"ValueError", "AttributeError"}

\* the whole of __call__
MetricResult(ex, pred, thr) ==
    LET sv == ExtractSavings(pred)
        tg == TargetSavings(ex)
        exc == IF sv.exc # "none" THEN sv.exc ELSE tg.exc
        raw == RawScore(sv.value, tg.value, pred.repr_len, thr)
    IN  IF exc = "none"
        THEN [pc |-> "returned", exc |-> "none", savings |-> sv.value,
              raw |-> raw, score |-> FinalScore(raw)]
        ELSE IF Caught(exc)
        THEN [pc |-> "returned", exc |-> exc, savings |-> 0,
              raw |-> RInt(0), score |-> RInt(0)]
        ELSE [pc |-> "raised", exc |-> exc, savings |-> 0,
              raw |-> RInt(0), score |-> RInt(0)]

RECURSIVE StringsOfLen(_)
StringsOfLen(n) ==
    IF n = 0 THEN {<<>>}
    ELSE {<<c>> \o s : c \in Chars, s \in StringsOfLen(n - 1)}

Strings == UNION {StringsOfLen(n) : n \in 0..MaxLen}

TokenCounts == {0, 250, 1000}
Targets == {-10, 0, 1, 15, 50}
Thresholds == {0, DefaultThreshold, 10}

Examples ==
    {[kind |-> "num", value |-> t] : t \in Targets}
    \cup {[kind |-> k, value |-> 0] : k \in {"missing", "badstr", "none"}}

Predictions ==
    {[kind |-> "str", total_savings |-> s, repr_len |-> n] :
        s \in Strings, n \in TokenCounts}
    \cup {[kind |-> k, total_savings |-> <<>>, repr_len |-> n] :
        k \in {"missing", "number"}, n \in TokenCounts}

MetricCall ==
    /\ m_pc = "ready"
    /\ LET r == MetricResult(example, prediction, target_savings_threshold)
       IN  /\ m_pc' = r.pc
           /\ m_exc' = r.exc
           /\ savings' = r.savings
           /\ cost_efficiency' = r.raw
           /\ score' = r.score
    /\ UNCHANGED <<target_savings_threshold, example, prediction>>
    /\ UNCHANGED <<genVars, httpVars, evolveVars, batchVars>>

(***************************************************************************)
(* create_mock_payment_dataset  (gepaPaymentOptimizer.py 114-180)          *)
(* amount, user_balance and target_savings are held in hundredths,         *)
(* query_cost in ten-thousandths; random factors in percent.               *)
(***************************************************************************)
VariationsPerScenario == 20    \* range(20)

SeedScenarios == <<
    [amount |-> 100000, currency |-> "USD",
     invoice_details |-> "Vendor invoice for software licensing",
     query_cost |-> 500, user_balance |-> 500000, urgency |-> "low",
     target_savings |-> 5000],
    [amount |-> 50000, currency |-> "USD",
     invoice_details |-> "Marketing services invoice",
     query_cost |-> 300, user_balance |-> 200000, urgency |-> "medium",
     target_savings |-> 2500],
    [amount |-> 200000, currency |-> "USD",
     invoice_details |-> "Cloud infrastructure invoice",
     query_cost |-> 800, user_balance |-> 1000000, urgency |-> "high",
     target_savings |-> 10000],
    [amount |-> 15000, currency |-> "USD",
     invoice_details |-> "API usage invoice",
     query_cost |-> 200, user_balance |-> 100000, urgency |-> "low",
     target_savings |-> 1500],
    [amount |-> 300000, currency |-> "USD",
     invoice_details |-> "Enterprise software license",
     query_cost |-> 1200, user_balance |-> 1500000, urgency |-> "medium",
     target_savings |-> 15000] >>

\* the generator's next state (a linear congruential step)
RngStep(r) == (5 * r + 3) % RngMod

\* np.random.uniform(low, high): a value of [low, high), in percent
Uniform(low, high, r) == low + ((high - low) * r) \div RngMod

\* x *= factor
Times(x, pct) == (x * pct) \div 100

\* lines 175-177 applied to the wrong key
PerturbWrongKey(rec, r1, r2, r3) ==
    [rec EXCEPT !.amount = Times(@, Uniform(80, 120, r1)),
                !.user_balance = Times(@, Uniform(90, 110, r2)),
                !.target_savings = Times(@, Uniform(80, 120, r3))]

\* lines 175-177
Perturb(rec, r1, r2, r3) ==
    [rec EXCEPT !.amount = Times(@, Uniform(80, 120, r1)),
                !.query_cost = Times(@, Uniform(90, 110, r2)),
                !.target_savings = Times(@, Uniform(80, 120, r3))]

\* line 173 without the copy: variation is the scenario itself
VariationRefAlias(src, fresh) == src

\* line 173: scenario.copy() is a new dict object
VariationRef(src, fresh) == fresh

\* one pass of the inner loop body, lines 173-178
GenVariation ==
    /\ g_pc = "loop"
    /\ g_i <= Len(scenarios)
    /\ LET scenario == scenarios[g_i]
           variation == VariationRef(scenario, Len(scenarios) + Len(dataset) + 1)
           r1 == rng
           r2 == RngStep(r1)
           r3 == RngStep(r2)
       IN  /\ heap' = (variation :> Perturb(heap[scenario], r1, r2, r3)) @@ heap
           /\ dataset' = Append(dataset, variation)
           /\ rng' = RngStep(r3)
    /\ IF g_j + 1 < VariationsPerScenario
       THEN g_j' = g_j + 1 /\ g_i' = g_i
       ELSE g_j' = 0 /\ g_i' = g_i + 1
    /\ UNCHANGED <<scenarios, g_pc>>
    /\ UNCHANGED <<metricVars, httpVars, evolveVars, batchVars>>

\* line 180: return dataset
GenReturn ==
    /\ g_pc = "loop"
    /\ g_i > Len(scenarios)
    /\ g_pc' = "done"
    /\ UNCHANGED <<heap, scenarios, dataset, g_i, g_j, rng>>
    /\ UNCHANGED <<metricVars, httpVars, evolveVars, batchVars>>

\* the dicts a list of references stands for
Records(refs) == [k \in 1..Len(refs) |-> heap[refs[k]]]

(***************************************************************************)
(* What the network can answer to one request                              *)
(***************************************************************************)
\* an optional JSON member is <<>> (absent) or <<value>>
NoBody == [json |-> "no", success |-> "absent", error |-> <<>>,
           cost |-> <<>>, savings |-> <<>>, response |-> <<>>,
           provider |-> <<>>]

\* envelopes the SDK client reads: {success, error}
ClientBodies ==
    {NoBody} \cup
    {[NoBody EXCEPT !.json = "yes", !.success = sc, !.error = e] :
        sc \in {"true", "false", "absent"}, e \in {<<>>, <<"bad wallet">>}}

\* envelopes the quick-start agent reads: {success, data: {...}}; a body
\* lacking both optimizedResponse and recommendedProvider fails at the same
\* lookup (line 45) as one lacking optimizedResponse alone
AgentBodies ==
    {NoBody} \cup
    {[NoBody EXCEPT !.json = "yes", !.success = sc] : sc \in {"false", "absent"}}
    \cup
    {[json |-> "yes", success |-> "true", error |-> <<>>, cost |-> c,
      savings |-> sv, response |-> rp[1], provider |-> rp[2]] :
        c \in {<<>>, <<1>>, <<2>>}, sv \in {<<>>, <<-1>>, <<2>>},
        rp \in {<< <<>>, <<"openai">> >>, << <<"text">>, <<>> >>,
                << <<"text">>, <<"openai">> >>}}

Failures ==
    {[kind |-> k, status |-> 0, body |-> NoBody] : k \in {"timeout", "refused"}}

ClientNet ==
    Failures \cup
    {[kind |-> "response", status |-> st, body |-> b] :
        st \in {200, 304, 400, 500}, b \in ClientBodies}

\* a status other than 200 is never followed by a look at the body
AgentNet ==
    Failures \cup
    {[kind |-> "response", status |-> 200, body |-> b] : b \in AgentBodies}
    \cup
    {[kind |-> "response", status |-> 500, body |-> b] :
        b \in {NoBody,
               [json |-> "yes", success |-> "true", error |-> <<>>,
                cost |-> <<1>>, savings |-> <<2>>, response |-> <<"text">>,
                provider |-> <<"openai">>]}}

NoNet == [kind |-> "none", status |-> 0, body |-> NoBody]
NoResult == [kind |-> "none", cost |-> <<>>, saved |-> <<>>]

(***************************************************************************)
(* AIAgentClient  (onchain_agent_sdk.py 17-218)                            *)
(***************************************************************************)
\* a failed request is sent a second time
SessionSendRetry(req, net) ==
    IF net.kind = "response" /\ net.status < 400 THEN <<req>> ELSE <<req, req>>

\* lines 62-65: session.get / session.post, the requests put on the wire
SessionSend(req, net) == <<req>>

\* lines 81-87 raising the network error instead
HttpErrorOutcomeAsNetwork(net) ==
    [status |-> "raised", exc |-> "RequestException",
     msg |-> <<"HTTP ", net.status>>]

\* lines 81-87: the HTTPError of raise_for_status becomes a ValueError
HttpErrorOutcome(net) ==
    [status |-> "raised", exc |-> "ValueError",
     msg |-> IF net.body.json = "yes"
             THEN IF net.body.error # <<>> THEN net.body.error
                  ELSE <<"HTTP ", net.status>>
             ELSE <<"HTTP ", net.status, ": reason">>]

\* lines 72-75 without the success check
EnvelopeOutcomeUnchecked(body) ==
    [status |-> "returned", exc |-> "none", msg |-> <<>>]

\* lines 70-75: response.json(), the success check, return result
EnvelopeOutcome(body) ==
    IF body.json # "yes"
    THEN [status |-> "raised", exc |-> "JSONDecodeError", msg |-> <<>>]
    ELSE IF body.success # "true"
    THEN [status |-> "raised", exc |-> "ValueError",
          msg |-> IF body.error # <<>> THEN body.error
                  ELSE <<"Unknown API error">>]
    ELSE [status |-> "returned", exc |-> "none", msg |-> <<>>]

\* lines 61-87: how _make_request ends for what the network answered
RequestOutcome(net) ==
    CASE net.kind = "timeout" ->
            [status |-> "raised", exc |-> "RequestException",
             msg |-> <<"Request timeout: API did not respond in time">>]
      [] net.kind = "refused" ->
            [status |-> "raised", exc |-> "RequestException",
             msg |-> <<"Connection error: Unable to connect to API">>]
      [] net.kind = "response" /\ net.status >= 400 -> HttpErrorOutcome(net)
      [] OTHER -> EnvelopeOutcome(net.body)

ClientMethods ==
    {"optimize", "chat", "connect_wallet", "get_analytics", "get_providers",
     "get_info"}

\* argument values: the empty string, None, a usable value
ArgValues == {"", "None", "value"}
Falsy(x) == x \in {"", "None"}

\* the first required parameter a public method finds missing, or "none"
MissingParam(method, a, b) ==
    CASE method = "optimize" ->
            IF Falsy(a) THEN "prompt"
            ELSE IF Falsy(b) THEN "wallet_address" ELSE "none"
      [] method = "chat" ->
            IF Falsy(a) THEN "message"
            ELSE IF Falsy(b) THEN "wallet_address" ELSE "none"
      [] method \in {"connect_wallet", "get_analytics"} ->
            IF Falsy(a) THEN "wallet_address" ELSE "none"
      [] OTHER -> "none"

\* the request a public method hands to _make_request
RequestOf(method) ==
    CASE method = "optimize"       -> [verb |-> "POST", action |-> "optimize"]
      [] method = "chat"           -> [verb |-> "POST", action |-> "chat"]
      [] method = "connect_wallet" -> [verb |-> "POST", action |-> "wallet"]
      [] method = "get_analytics"  -> [verb |-> "GET", action |-> "analytics"]
      [] method = "get_providers"  -> [verb |-> "GET", action |-> "providers"]
      [] method = "get_info"       -> [verb |-> "GET", action |-> "info"]

\* a public method of AIAgentClient, from its parameter checks to its end
ClientInvoke(method, a, b, net) ==
    LET missing == MissingParam(method, a, b)
        out == RequestOutcome(net)
    IN  IF missing # "none"
        THEN [obj |-> "client", method |-> method, a |-> a, b |-> b,
              net |-> NoNet, sent |-> <<>>, status |-> "raised",
              exc |-> "ValueError", msg |-> <<missing, " is required">>,
              result |-> NoResult]
        ELSE [obj |-> "client", method |-> method, a |-> a, b |-> b,
              net |-> net, sent |-> SessionSend(RequestOf(method), net),
              status |-> out.status, exc |-> out.exc, msg |-> out.msg,
              result |-> IF out.status = "returned"
                         THEN [NoResult EXCEPT !.kind = "envelope"]
                         ELSE NoResult]

ClientCall ==
    /\ who = "client"
    /\ \E method \in ClientMethods, a \in ArgValues, b \in ArgValues,
          net \in ClientNet :
          call' = ClientInvoke(method, a, b, net)
    /\ UNCHANGED <<who, total_cost, total_saved, total_calls, chats,
                   ok_responses, ok_cost, ok_saved>>
    /\ UNCHANGED <<metricVars, genVars, evolveVars, batchVars>>

(***************************************************************************)
(* CostOptimizedAIAgent  (quick-start.py 11-76)                            *)
(***************************************************************************)
\* lines 23-34: requests.post, the requests put on the wire
PostSend(req, net) == <<req>>

Opt(x) == IF x = <<>> THEN 0 ELSE x[1]

ErrorResult == [kind |-> "error", cost |-> <<>>, saved |-> <<>>]

\* lines 23-51: chat, as the totals it leaves and the way it ends
ChatEffect(tc, ts, tn, net) ==
    LET keep == [total_cost |-> tc, total_saved |-> ts, total_calls |-> tn]
        b == net.body
        raise(e, t) == [totals |-> t, status |-> "raised", exc |-> e,
                        result |-> NoResult]
    IN  CASE net.kind = "timeout" -> raise("Timeout", keep)
          [] net.kind = "refused" -> raise("ConnectionError", keep)
          [] net.status # 200 ->
                [totals |-> keep, status |-> "returned", exc |-> "none",
                 result |-> ErrorResult]
          [] b.json # "yes" -> raise("JSONDecodeError", keep)
          [] b.success = "absent" -> raise("KeyError", keep)
          [] b.success = "false" ->
                [totals |-> keep, status |-> "returned", exc |-> "none",
                 result |-> ErrorResult]
          [] b.cost = <<>> -> raise("KeyError", keep)
          [] b.savings = <<>> ->
                raise("KeyError", [keep EXCEPT !.total_cost = tc + b.cost[1]])
          [] OTHER ->
                LET all == [total_cost |-> tc + b.cost[1],
                            total_saved |-> ts + b.savings[1],
                            total_calls |-> tn + 1]
                IN  IF b.response = <<>> \/ b.provider = <<>>
                    THEN raise("KeyError", all)
                    ELSE [totals |-> all, status |-> "returned",
                          exc |-> "none",
                          result |-> [kind |-> "chat", cost |-> b.cost,
                                      saved |-> b.savings]]

\* a response the server meant as a success
OkResponse(net) ==
    net.kind = "response" /\ net.status = 200 /\ net.body.json = "yes"
        /\ net.body.success = "true"

\* one call of chat(message), answered by net: lines 19-51
Chat(message, net) ==
    LET e == ChatEffect(total_cost, total_saved, total_calls, net)
        req == [verb |-> "POST", action |-> "optimize"]
    IN  /\ total_cost' = e.totals.total_cost
        /\ total_saved' = e.totals.total_saved
        /\ total_calls' = e.totals.total_calls
        /\ call' = [obj |-> "agent", method |-> "chat", a |-> message,
                    b |-> "value", net |-> net,
                    sent |-> PostSend(req, net), status |-> e.status,
                    exc |-> e.exc, msg |-> <<>>, result |-> e.result]
        /\ ok_responses' = ok_responses + (IF OkResponse(net) THEN 1 ELSE 0)
        /\ ok_cost' = ok_cost + (IF OkResponse(net) THEN Opt(net.body.cost) ELSE 0)
        /\ ok_saved' = ok_saved + (IF OkResponse(net) THEN Opt(net.body.savings) ELSE 0)
        /\ chats' = chats + 1

\* chat called by the program itself (not from within a batch)
AgentChat ==
    /\ who = "agent"
    /\ b_pc # "loop"
    /\ chats < MaxChats
    /\ \E net \in AgentNet : Chat("value", net)
    /\ UNCHANGED who
    /\ UNCHANGED <<metricVars, genVars, evolveVars, batchVars>>

Messages == {"m1", "m2"}

RECURSIVE SeqsOfLen(_)
SeqsOfLen(n) ==
    IF n = 0 THEN {<<>>}
    ELSE {<<m>> \o t : m \in Messages, t \in SeqsOfLen(n - 1)}

MessageLists == UNION {SeqsOfLen(n) : n \in 0..MaxBatch}

\* line 75 keeping only the results that are no error
AppendResultSkipErrors(rs, r) == IF r.kind = "error" THEN rs ELSE Append(rs, r)

\* line 75: results.append(result)
AppendResult(rs, r) == Append(rs, r)

\* lines 68-72: batch_process(messages) entered, results = []
BatchStart ==
    /\ who = "agent"
    /\ b_pc = "idle"
    /\ \E ms \in MessageLists :
          /\ chats + Len(ms) <= MaxChats
          /\ messages' = ms
    /\ b_i' = 1
    /\ results' = <<>>
    /\ wire' = <<>>
    /\ b_calls0' = total_calls
    /\ b_pc' = "loop"
    /\ UNCHANGED b_calls1
    /\ UNCHANGED httpVars
    /\ UNCHANGED <<metricVars, genVars, evolveVars>>

\* lines 73-75: one pass of the loop; an exception of chat leaves the method
BatchStep ==
    /\ b_pc = "loop"
    /\ b_i <= Len(messages)
    /\ \E net \in AgentNet :
          LET e == ChatEffect(total_cost, total_saved, total_calls, net)
          IN  /\ Chat(messages[b_i], net)
              /\ wire' = wire \o [k \in 1..Len(call'.sent) |-> messages[b_i]]
              /\ IF e.status = "returned"
                 THEN /\ results' = AppendResult(results, e.result)
                      /\ b_i' = b_i + 1
                      /\ b_pc' = "loop"
                 ELSE /\ b_pc' = "raised"
                      /\ UNCHANGED <<results, b_i>>
    /\ UNCHANGED <<who, messages, b_calls0, b_calls1>>
    /\ UNCHANGED <<metricVars, genVars, evolveVars>>

\* line 76: return results
BatchReturn ==
    /\ b_pc = "loop"
    /\ b_i > Len(messages)
    /\ b_pc' = "returned"
    /\ b_calls1' = total_calls
    /\ UNCHANGED <<messages, b_i, results, wire, b_calls0>>
    /\ UNCHANGED httpVars
    /\ UNCHANGED <<metricVars, genVars, evolveVars>>

NoCall == [obj |-> "none", method |-> "none", a |-> "", b |-> "",
           net |-> NoNet, sent |-> <<>>, status |-> "none", exc |-> "none",
           msg |-> <<>>, result |-> NoResult]

(***************************************************************************)
(* evolve_payment_optimizer  (gepaPaymentOptimizer.py 182-235)             *)
(* GEPA is an external library: its search is a sequence of evaluations,   *)
(* at most budget of them, that ends by returning a router or by raising.  *)
(***************************************************************************)
NoRouter == [analyze_cost |-> "", x402_negotiate |-> "",
             optimize_discount |-> "", route_optimization |-> ""]

\* routers the search may return: each predictor's prompt kept or rewritten
EvolvedRouters ==
    {[analyze_cost |-> "baseline", x402_negotiate |-> "baseline",
      optimize_discount |-> "baseline", route_optimization |-> "baseline"],
     [analyze_cost |-> "evolved", x402_negotiate |-> "baseline",
      optimize_discount |-> "evolved", route_optimization |-> "baseline"],
     [analyze_cost |-> "evolved", x402_negotiate |-> "evolved",
      optimize_discount |-> "evolved", route_optimization |-> "evolved"]}

\* str(module)
StrOf(x) == <<"str", x>>

\* lines 200-206: the keyword arguments of GEPA(...), each named by the
\* local it is bound to
GepaArgs ==
    [adapter |-> "adapter", metric |-> "metric", task_lm |-> "lm",
     reflection_lm |-> "gpt-4o", budget |-> "budget"]

\* line 211: the arguments of gepa.optimize(...)
OptimizeArgs == <<"initial_router">>

\* lines 223-227 taking the number of seed scenarios for the dataset size
EvolutionMetricsSeeds(b, ds, m) ==
    [budget_used |-> b, dataset_size |-> Len(scenarios),
     target_savings_threshold |-> m[1]]

\* lines 223-227
EvolutionMetrics(b, ds, m) ==
    [budget_used |-> b, dataset_size |-> Len(ds),
     target_savings_threshold |-> m[1]]

\* lines 216-228
EvolvedConfig(router, b, ds, m) ==
    [name |-> "evolved_payment_config.json",
     evolved_prompts |->
        [analyze_cost |-> StrOf(router.analyze_cost),
         x402_negotiate |-> StrOf(router.x402_negotiate),
         optimize_discount |-> StrOf(router.optimize_discount),
         route_optimization |-> StrOf(router.route_optimization)],
     evolution_metrics |-> EvolutionMetrics(b, ds, m)]

\* lines 197-211: once the dataset is there, the metric and GEPA are built
\* and gepa.optimize is entered
EvolveSetup ==
    /\ e_pc = "dataset"
    /\ g_pc = "done"
    /\ metric' = <<DefaultThreshold>>
    /\ gepa_args' = GepaArgs
    /\ optimize_args' = OptimizeArgs
    /\ e_pc' = "search"
    /\ UNCHANGED <<budget, evals, evolved_router, files>>
    /\ UNCHANGED <<metricVars, genVars, httpVars, batchVars>>

\* line 211, inside the optimizer: one more evaluation
SearchEval ==
    /\ e_pc = "search"
    /\ evals < budget
    /\ evals' = evals + 1
    /\ UNCHANGED <<e_pc, budget, metric, gepa_args, optimize_args,
                   evolved_router, files>>
    /\ UNCHANGED <<metricVars, genVars, httpVars, batchVars>>

\* line 211: the search raises; nothing in the function catches it
SearchRaise ==
    /\ e_pc = "search"
    /\ e_pc' = "raised"
    /\ UNCHANGED <<budget, metric, gepa_args, optimize_args, evals,
                   evolved_router, files>>
    /\ UNCHANGED <<metricVars, genVars, httpVars, batchVars>>

\* line 211: gepa.optimize returns the evolved router
SearchReturn ==
    /\ e_pc = "search"
    /\ evolved_router' \in EvolvedRouters
    /\ e_pc' = "optimized"
    /\ UNCHANGED <<budget, metric, gepa_args, optimize_args, evals, files>>
    /\ UNCHANGED <<metricVars, genVars, httpVars, batchVars>>

\* lines 216-231: build the configuration and write the file
EvolveSave ==
    /\ e_pc = "optimized"
    /\ files' = Append(files,
                    EvolvedConfig(evolved_router, budget, dataset, metric))
    /\ e_pc' = "saved"
    /\ UNCHANGED <<budget, metric, gepa_args, optimize_args, evals,
                   evolved_router>>
    /\ UNCHANGED <<metricVars, genVars, httpVars, batchVars>>

\* line 235: return evolved_router
EvolveReturn ==
    /\ e_pc = "saved"
    /\ e_pc' = "done"
    /\ UNCHANGED <<budget, metric, gepa_args, optimize_args, evals,
                   evolved_router, files>>
    /\ UNCHANGED <<metricVars, genVars, httpVars, batchVars>>

(***************************************************************************)
(* The specifications: one per program.  The parts of the state a program  *)
(* does not use stay as constructed.                                       *)
(***************************************************************************)
MetricInit ==
    /\ target_savings_threshold \in Thresholds
    /\ example \in Examples
    /\ prediction \in Predictions
    /\ m_pc = "ready" /\ m_exc = "none" /\ savings = 0
    /\ cost_efficiency = RInt(0) /\ score = RInt(0)
    /\ heap = [k \in 1..Len(SeedScenarios) |-> SeedScenarios[k]]
    /\ scenarios = [k \in 1..Len(SeedScenarios) |-> k]
    /\ dataset = <<>> /\ g_i = 1 /\ g_j = 0 /\ g_pc = "loop" /\ rng = 0
    /\ who = "none" /\ call = NoCall
    /\ total_cost = 0 /\ total_saved = 0 /\ total_calls = 0 /\ chats = 0
    /\ ok_responses = 0 /\ ok_cost = 0 /\ ok_saved = 0
    /\ e_pc = "idle" /\ budget = 0 /\ metric = <<>> /\ gepa_args = <<>>
    /\ optimize_args = <<>> /\ evals = 0 /\ evolved_router = NoRouter
    /\ files = <<>>
    /\ b_pc = "idle" /\ messages = <<>> /\ b_i = 1 /\ results = <<>>
    /\ wire = <<>> /\ b_calls0 = 0 /\ b_calls1 = 0

MetricNext == MetricCall
SpecMetric == MetricInit /\ [][MetricNext]_vars

GenInit ==
    /\ heap = [k \in 1..Len(SeedScenarios) |-> SeedScenarios[k]]
    /\ scenarios = [k \in 1..Len(SeedScenarios) |-> k]
    /\ dataset = <<>> /\ g_i = 1 /\ g_j = 0 /\ g_pc = "loop"
    /\ rng \in 0..(RngMod - 1)
    /\ target_savings_threshold = DefaultThreshold
    /\ example = [kind |-> "missing", value |-> 0]
    /\ prediction = [kind |-> "missing", total_savings |-> <<>>, repr_len |-> 0]
    /\ m_pc = "ready" /\ m_exc = "none" /\ savings = 0
    /\ cost_efficiency = RInt(0) /\ score = RInt(0)
    /\ who = "none" /\ call = NoCall
    /\ total_cost = 0 /\ total_saved = 0 /\ total_calls = 0 /\ chats = 0
    /\ ok_responses = 0 /\ ok_cost = 0 /\ ok_saved = 0
    /\ e_pc = "idle" /\ budget = 0 /\ metric = <<>> /\ gepa_args = <<>>
    /\ optimize_args = <<>> /\ evals = 0 /\ evolved_router = NoRouter
    /\ files = <<>>
    /\ b_pc = "idle" /\ messages = <<>> /\ b_i = 1 /\ results = <<>>
    /\ wire = <<>> /\ b_calls0 = 0 /\ b_calls1 = 0

GenNext == GenVariation \/ GenReturn
SpecDataset == GenInit /\ [][GenNext]_vars

HttpInit ==
    /\ who \in {"client", "agent"}
    /\ call = NoCall
    /\ total_cost = 0 /\ total_saved = 0 /\ total_calls = 0 /\ chats = 0
    /\ ok_responses = 0 /\ ok_cost = 0 /\ ok_saved = 0
    /\ target_savings_threshold = DefaultThreshold
    /\ example = [kind |-> "missing", value |-> 0]
    /\ prediction = [kind |-> "missing", total_savings |-> <<>>, repr_len |-> 0]
    /\ m_pc = "ready" /\ m_exc = "none" /\ savings = 0
    /\ cost_efficiency = RInt(0) /\ score = RInt(0)
    /\ heap = [k \in 1..Len(SeedScenarios) |-> SeedScenarios[k]]
    /\ scenarios = [k \in 1..Len(SeedScenarios) |-> k]
    /\ dataset = <<>> /\ g_i = 1 /\ g_j = 0 /\ g_pc = "loop" /\ rng = 0
    /\ e_pc = "idle" /\ budget = 0 /\ metric = <<>> /\ gepa_args = <<>>
    /\ optimize_args = <<>> /\ evals = 0 /\ evolved_router = NoRouter
    /\ files = <<>>
    /\ b_pc = "idle" /\ messages = <<>> /\ b_i = 1 /\ results = <<>>
    /\ wire = <<>> /\ b_calls0 = 0 /\ b_calls1 = 0

HttpNext ==
    ClientCall \/ AgentChat \/ BatchStart \/ BatchStep \/ BatchReturn
SpecHttp == HttpInit /\ [][HttpNext]_vars

\* evolve_payment_optimizer(budget), entered and about to make its dataset
EvolveInit ==
    /\ e_pc = "dataset"
    /\ budget \in 1..MaxBudget
    /\ metric = <<>> /\ gepa_args = <<>> /\ optimize_args = <<>>
    /\ evals = 0 /\ evolved_router = NoRouter /\ files = <<>>
    /\ heap = [k \in 1..Len(SeedScenarios) |-> SeedScenarios[k]]
    /\ scenarios = [k \in 1..Len(SeedScenarios) |-> k]
    /\ dataset = <<>> /\ g_i = 1 /\ g_j = 0 /\ g_pc = "loop"
    /\ rng \in 0..(RngMod - 1)
    /\ target_savings_threshold = DefaultThreshold
    /\ example = [kind |-> "missing", value |-> 0]
    /\ prediction = [kind |-> "missing", total_savings |-> <<>>, repr_len |-> 0]
    /\ m_pc = "ready" /\ m_exc = "none" /\ savings = 0
    /\ cost_efficiency = RInt(0) /\ score = RInt(0)
    /\ who = "none" /\ call = NoCall
    /\ total_cost = 0 /\ total_saved = 0 /\ total_calls = 0 /\ chats = 0
    /\ ok_responses = 0 /\ ok_cost = 0 /\ ok_saved = 0
    /\ b_pc = "idle" /\ messages = <<>> /\ b_i = 1 /\ results = <<>>
    /\ wire = <<>> /\ b_calls0 = 0 /\ b_calls1 = 0

EvolveNext ==
    \/ GenVariation \/ GenReturn \/ EvolveSetup \/ SearchEval \/ SearchRaise
    \/ SearchReturn \/ EvolveSave \/ EvolveReturn
SpecEvolve == EvolveInit /\ [][EvolveNext]_vars

\* every program at once
Init == MetricInit \/ GenInit \/ HttpInit \/ EvolveInit
Next == MetricNext \/ GenNext \/ HttpNext \/ EvolveNext
Spec == Init /\ [][Next]_vars

(***************************************************************************)
(* Claims about the generator, checked under SpecDataset                   *)
(***************************************************************************)
\* the seed a dataset position was derived from
SeedOf(k) == SeedScenarios[((k - 1) \div VariationsPerScenario) + 1]

Within(v, seed, lowPct, highPct) ==
    lowPct * seed <= 100 * v /\ 100 * v <= highPct * seed

\* C5: every generated record is within the perturbation range of the
\* original seed (amount and target_savings 0.8..1.2, query_cost 0.9..1.1),
\* and the seed records are never modified.
C5_BoundedBySeed ==
    /\ Records(scenarios) = SeedScenarios
    /\ \A k \in 1..Len(dataset) :
          LET v == heap[dataset[k]]
          IN  /\ Within(v.amount, SeedOf(k).amount, 80, 120)
              /\ Within(v.query_cost, SeedOf(k).query_cost, 90, 110)
              /\ Within(v.target_savings, SeedOf(k).target_savings, 80, 120)

\* C5 witness: the dataset is complete and some variant differs from its
\* seed in each of the three perturbed fields.
C5_Witness ==
    /\ g_pc = "done"
    /\ \E k \in 1..Len(dataset) :
          LET v == heap[dataset[k]]
          IN  /\ v.amount # SeedOf(k).amount
              /\ v.query_cost # SeedOf(k).query_cost
              /\ v.target_savings # SeedOf(k).target_savings

\* C6: the result has exactly 100 records in seed order, 20 per seed, each
\* keeping its seed's currency, invoice_details, user_balance and urgency.
C6_HundredInSeedOrder ==
    /\ Len(dataset) <= Len(SeedScenarios) * VariationsPerScenario
    /\ g_pc = "done" =>
          /\ Len(dataset) = 100
          /\ \A k \in 1..Len(dataset) :
                LET v == heap[dataset[k]]
                IN  /\ v.currency = SeedOf(k).currency
                    /\ v.invoice_details = SeedOf(k).invoice_details
                    /\ v.user_balance = SeedOf(k).user_balance
                    /\ v.urgency = SeedOf(k).urgency

\* C6 witness: the function has returned its 100 records.
C6_Witness == g_pc = "done" /\ Len(dataset) = 100

(***************************************************************************)
(* Claims about the metric, checked under SpecMetric                       *)
(***************************************************************************)
Min(a, b) == IF a <= b THEN a ELSE b

\* the numbers the total_savings strings of the model denote
ParsedValues ==
    {ParseFloat(str).value : str \in {x \in Strings : ParseFloat(x).ok}}

\* the target the call works with, when the example supplies a usable one
TargetOf(ex) == TargetSavings(ex).value

\* C1: every returned score lies in the closed range [0, 1].
C1_ScoreInUnitRange ==
    m_pc = "returned" => RLeq(RInt(0), score) /\ RLeq(score, RInt(1))

\* C2: the metric never raises, and a total_savings that is malformed,
\* missing or not a string, or a target_savings that is non-numeric or None,
\* yields exactly 0.0.
C2_Malformed ==
    \/ prediction.kind # "str"
    \/ ~ParseFloat(Replace(Replace(prediction.total_savings, "$"), ",")).ok
    \/ example.kind \in {"badstr", "none"}

C2_MetricTotal ==
    /\ m_pc # "raised"
    /\ (m_pc = "returned" /\ C2_Malformed) => score = RInt(0)

\* C3: with target, threshold and token count fixed, a larger reported
\* savings value never gets a lower score.
C3_Monotone ==
    (m_pc = "returned" /\ m_exc = "none") =>
        \A s1 \in ParsedValues :
            LET other == FinalScore(RawScore(s1, TargetOf(example),
                             prediction.repr_len, target_savings_threshold))
            IN  /\ (s1 <= savings => RLeq(other, score))
                /\ (s1 >= savings => RLeq(score, other))

\* C3 witness: a call that got the bonus and was clamped, while a smaller
\* savings value misses the bonus and scores strictly less.
C3_Witness ==
    /\ m_pc = "returned" /\ m_exc = "none"
    /\ MeetsThreshold(savings, TargetOf(example), target_savings_threshold)
    /\ ~RLeq(cost_efficiency, RInt(1))
    /\ \E s1 \in ParsedValues :
          /\ s1 < savings
          /\ ~MeetsThreshold(s1, TargetOf(example), target_savings_threshold)
          /\ ~RLeq(score, FinalScore(RawScore(s1, TargetOf(example),
                    prediction.repr_len, target_savings_threshold)))

\* the closed form of C4 over the common denominator 10 * max(t,1) * (1000+n)
C4_ClosedForm(s, t, n, thr) ==
    LET m == IF t > 1 THEN t ELSE 1
        d == 10 * m * (1000 + n)
        b == IF 10 * s >= t * thr THEN 2 * m * (1000 + n) ELSE 0
        raw == 7 * Min(s, m) * (1000 + n) + 3 * 1000 * m + b
    IN  Rat(Min(raw, d), d)

\* C4: whenever total_savings parses to s and the target is a number t, the
\* call returns min(0.7*min(s/max(t,1),1) + 0.3/(1+n/1000) + b, 1) with
\* b = 0.2 iff s >= t*threshold; t=50, s=50, n=0 is a raw 1.2 returned as 1.
C4_Formula ==
    (m_pc # "ready" /\ ExtractSavings(prediction).exc = "none"
        /\ example.kind = "num") =>
        /\ m_pc = "returned"
        /\ savings = ExtractSavings(prediction).value
        /\ score = C4_ClosedForm(savings, example.value, prediction.repr_len,
                                 target_savings_threshold)
        /\ (savings = 50 /\ example.value = 50 /\ prediction.repr_len = 0
                /\ target_savings_threshold = DefaultThreshold)
            => (cost_efficiency = Rat(12, 10) /\ score = RInt(1))

\* C4 witness: the worked example t=50, s=50, n=0 has been scored.
C4_Witness ==
    /\ m_pc = "returned" /\ m_exc = "none"
    /\ savings = 50 /\ example = [kind |-> "num", value |-> 50]
    /\ prediction.repr_len = 0
    /\ target_savings_threshold = DefaultThreshold
    /\ score = RInt(1)
(***************************************************************************)
(* Claims about the HTTP wrappers, checked under SpecHttp                  *)
(***************************************************************************)
\* C7: after any chat call total_calls is the number of successful
\* responses, total_cost the sum of their optimizedCost, total_saved the sum
\* of their savings, and no total ever decreases.
C7_TotalsTrackSuccesses ==
    [][/\ total_calls' = ok_responses'
       /\ total_cost' = ok_cost'
       /\ total_saved' = ok_saved'
       /\ total_calls' >= total_calls
       /\ total_cost' >= total_cost
       /\ total_saved' >= total_saved]_vars

ClientRequested == call.obj = "client" /\ call.net.kind # "none"

\* C8: an AIAgentClient call with a missing required parameter raises
\* ValueError("<parameter> is required"), and one answered by an envelope
\* with success false and error E raises ValueError(E); neither returns.
C8_ValueErrors ==
    /\ (call.obj = "client"
            /\ MissingParam(call.method, call.a, call.b) # "none") =>
          /\ call.status = "raised" /\ call.exc = "ValueError"
          /\ call.msg = <<MissingParam(call.method, call.a, call.b),
                          " is required">>
          /\ call.result = NoResult
    /\ (ClientRequested /\ call.net.kind = "response"
            /\ call.net.body.json = "yes" /\ call.net.body.success = "false"
            /\ call.net.body.error # <<>>) =>
          /\ call.status = "raised" /\ call.exc = "ValueError"
          /\ call.msg = call.net.body.error
          /\ call.result = NoResult

\* C8 witness: a 200 response {success: false, error: "bad wallet"} has been
\* raised as ValueError("bad wallet").
C8_Witness ==
    /\ ClientRequested /\ call.net.status = 200
    /\ call.net.body.success = "false"
    /\ call.net.body.error = <<"bad wallet">>
    /\ call.status = "raised" /\ call.exc = "ValueError"
    /\ call.msg = <<"bad wallet">>

C9_Transport ==
    \/ call.net.kind \in {"timeout", "refused"}
    \/ call.net.kind = "response"
          /\ ~(200 <= call.net.status /\ call.net.status < 300)

\* C9 as stated: every transport-level failure of _make_request (timeout,
\* refused connection, non-2xx status) reaches the caller as
\* requests.RequestException, not as a value error.
C9_TransportIsNetworkError ==
    (ClientRequested /\ C9_Transport) =>
        call.status = "raised" /\ call.exc = "RequestException"

\* C9 amended: a timeout or a refused connection reaches the caller as
\* requests.RequestException; a 4xx/5xx status reaches it as a ValueError
\* carrying the body's error member, or the HTTP status when there is none.
C9_Amended ==
    /\ (ClientRequested /\ call.net.kind \in {"timeout", "refused"}) =>
          call.status = "raised" /\ call.exc = "RequestException"
    /\ (ClientRequested /\ call.net.kind = "response"
            /\ call.net.status >= 400) =>
          /\ call.status = "raised" /\ call.exc = "ValueError"
          /\ call.msg = IF call.net.body.json = "yes"
                            /\ call.net.body.error # <<>>
                        THEN call.net.body.error
                        ELSE IF call.net.body.json = "yes"
                        THEN <<"HTTP ", call.net.status>>
                        ELSE <<"HTTP ", call.net.status, ": reason">>

\* C9 witness: a 500 answer without a JSON body has been raised as a
\* ValueError.
C9_Witness ==
    /\ ClientRequested /\ call.net.status = 500 /\ call.net.body.json = "no"
    /\ call.status = "raised" /\ call.exc = "ValueError"

\* C10: a public call sends exactly one request when its parameter checks
\* pass and none when they fail, whatever the answer: there is no retry.
C10_OneRequestPerCall ==
    /\ call.obj = "client" =>
          IF MissingParam(call.method, call.a, call.b) = "none"
          THEN call.sent = <<RequestOf(call.method)>>
          ELSE call.sent = <<>>
    /\ call.obj = "agent" =>
          call.sent = <<[verb |-> "POST", action |-> "optimize"]>>

\* C10 witness: a client call that timed out has sent exactly one request.
C10_Witness ==
    /\ ClientRequested /\ call.net.kind = "timeout"
    /\ call.status = "raised" /\ Len(call.sent) = 1
(***************************************************************************)
(* Claims about the evolution driver, checked under SpecEvolve             *)
(***************************************************************************)
HandedToOptimizer(local) ==
    \/ \E k \in DOMAIN gepa_args : gepa_args[k] = local
    \/ \E k \in DOMAIN optimize_args : optimize_args[k] = local

\* C11: once the optimizer is running it has been handed the dataset made
\* by create_mock_payment_dataset together with the metric, the task model
\* and the reflection model.
C11_DatasetAndMetricPassed ==
    e_pc \in {"search", "optimized", "saved", "done", "raised"} =>
        /\ HandedToOptimizer("dataset")
        /\ HandedToOptimizer("metric")
        /\ HandedToOptimizer("lm")
        /\ HandedToOptimizer("gpt-4o")

\* C12: evolved_payment_config.json is written at most once and only after
\* the search has returned; a search that raises leaves no file; a finished
\* call has written it once, with the four evolved prompts, budget_used =
\* budget, dataset_size = 100 and the metric's threshold.
C12_FileAfterSearch ==
    /\ Len(files) <= 1
    /\ e_pc \in {"dataset", "search", "optimized", "raised"} => files = <<>>
    /\ e_pc \in {"saved", "done"} =>
          /\ Len(files) = 1
          /\ files[1].name = "evolved_payment_config.json"
          /\ files[1].evolved_prompts =
                [analyze_cost |-> StrOf(evolved_router.analyze_cost),
                 x402_negotiate |-> StrOf(evolved_router.x402_negotiate),
                 optimize_discount |-> StrOf(evolved_router.optimize_discount),
                 route_optimization |-> StrOf(evolved_router.route_optimization)]
          /\ evolved_router \in EvolvedRouters
          /\ files[1].evolution_metrics =
                [budget_used |-> budget, dataset_size |-> 100,
                 target_savings_threshold |-> DefaultThreshold]
          /\ files[1].evolution_metrics.dataset_size = Len(dataset)
          /\ files[1].evolution_metrics.target_savings_threshold = metric[1]

\* C12 witness: the call has returned after a search that used its whole
\* budget and rewrote a prompt, and the file is there.
C12_Witness ==
    /\ e_pc = "done" /\ evals = budget /\ Len(files) = 1
    /\ evolved_router.analyze_cost = "evolved"
(***************************************************************************)
(* Claims about chat and batch_process, checked under SpecHttp             *)
(***************************************************************************)
\* C13: every chat call, however it ends, either leaves the three totals
\* alone or updates all three for the response it got.
C13_TotalsInStep ==
    [][chats' = chats + 1 =>
          \/ UNCHANGED <<total_cost, total_saved, total_calls>>
          \/ /\ total_calls' = total_calls + 1
             /\ call'.net.body.cost # <<>>
             /\ call'.net.body.savings # <<>>
             /\ total_cost' = total_cost + call'.net.body.cost[1]
             /\ total_saved' = total_saved + call'.net.body.savings[1]]_vars

\* the results that carry no 'error' key
C14_Successes == Cardinality({k \in 1..Len(results) : results[k].kind # "error"})

C14_Returned ==
    /\ Len(results) = Len(messages)
    /\ wire = messages
    /\ b_calls1 - b_calls0 = C14_Successes

C14_State ==
    /\ Len(wire) <= Len(messages)
    /\ wire = SubSeq(messages, 1, Len(wire))
    /\ b_pc = "loop" => (Len(results) = b_i - 1 /\ Len(wire) = b_i - 1)
    /\ b_pc = "returned" => C14_Returned
    /\ b_pc = "raised" => Len(wire) = Len(results) + 1

C14_Step ==
    /\ wire' # wire =>
          /\ b_pc = "loop"
          /\ Len(wire') = Len(wire) + 1
          /\ call'.a = messages[b_i]
          /\ call'.status = "returned" =>
                (b_pc' = "loop" /\ results' = Append(results, call'.result))
          /\ call'.status = "raised" => (b_pc' = "raised" /\ results' = results)
    /\ b_pc = "raised" => (b_pc' = "raised" /\ wire' = wire)

====
